---- MODULE Spec2Model ----
(***************************************************************************)
(* Model of py_threadpool/threadpool_translate.py: translate_text and the  *)
(* bounded fan-out / fan-in dispatcher parallel_translate, which submits   *)
(* one translate_text job per text to a ThreadPoolExecutor and drains the  *)
(* futures with as_completed.                                              *)
(*                                                                         *)
(* A future is identified by the position of its submission (1, 2, ...).   *)
(* A Python string built by an f-string is modelled by its format and the  *)
(* values substituted into it: [fmt |-> ..., args |-> <<...>>].            *)
(***************************************************************************)
EXTENDS Integers, Sequences, FiniteSets, Bags, TLC

\* Bounds of the model.
MaxLen == 2
MaxWorkers == 2

\* The texts a caller may pass, and how a job's execution may turn out:
\*   ok        - invoke_model returns a body holding the generated text
\*   transport - invoke_model raises
\*   malformed - the body is not JSON or lacks output/message/content
\*   crash     - the job raises an Exception outside translate_text's try
Texts == {"Hello", "World"}
Behaviours == {"ok", "transport", "malformed", "crash"}

source_lang == "en"
target_lang == "ja"

None == [fmt |-> "None", args |-> <<>>]
NoException == "None"

VARIABLES
    pc,                 \* position of the caller's thread in parallel_translate
    texts,              \* argument texts
    max_workers,        \* argument max_workers
    behaviour,          \* per job: how its execution turns out (environment)
    translated_results, \* the list built by the collector
    future_to_text,     \* future -> original text
    futures,            \* future -> [state, result, exception]
    in_call,            \* futures whose worker is blocked in invoke_model
    work_queue,         \* executor._work_queue
    num_threads,        \* len(executor._threads)
    idle_semaphore,     \* executor._idle_semaphore
    waiter,             \* as_completed's waiter is installed on the futures
    waiter_finished,    \* waiter.finished_futures, in completion order
    ac_finished,        \* as_completed's local list of futures to yield next
    ac_pending,         \* as_completed's local set of futures not yet yielded
    collected,          \* the futures the for loop has processed, in order
    invocations,        \* translate_text invocations of the current batch
    remote_calls,       \* invoke_model calls of the current batch
    last_returned,      \* the list the call before returned, as the caller
                        \* holds it between two calls
    earlier_batch       \* a call before this one returned outcomes

vars == <<pc, texts, max_workers, behaviour, translated_results, future_to_text,
          futures, in_call, work_queue, num_threads, idle_semaphore, waiter,
          waiter_finished, ac_finished, ac_pending, collected, invocations,
          remote_calls, last_returned, earlier_batch>>

----------------------------------------------------------------------------
\* Pure helpers.

Range(s) == {s[i] : i \in DOMAIN s}

SeqsUpTo(S, n) == UNION {[1..k -> S] : k \in 0..n}

\* The orders in which a set may be listed.
ListsOf(S) == {s \in [1..Cardinality(S) -> S] : Range(s) = S}

BagOfSeq(s) == [x \in Range(s) |-> Cardinality({i \in DOMAIN s : s[i] = x})]

\* The instruction sent to the model (line 33).
Prompt(text) == <<source_lang, target_lang, text>>

\* The generated text the provider returns for a prompt.
Provider(prompt) == IF prompt[3] = "Hello" THEN "Konnichiwa" ELSE "World!!"

\* The message of the exception a behaviour raises.
ExcMessage(b) ==
    CASE b = "transport" -> "EndpointConnectionError"
      [] b = "malformed" -> "KeyError('output')"
      [] b = "crash"     -> "MemoryError"
      [] OTHER           -> NoException

Plain(s) == [fmt |-> "{}", args |-> <<s>>]

\* f"Translation error: {e}" (line 64).
TranslationError(e) == [fmt |-> "Translation error: {}", args |-> <<e>>]

\* f"Error for '{original_text}': {exc}" (line 87).
ErrorFor(original_text, exc) ==
    [fmt |-> "Error for '{}': {}", args |-> <<original_text, exc>>]

\* Mutant of translate_text: on success the input text is returned in place
\* of translated_text.
translate_text_ReturnsInput(text, b) ==
    IF b = "ok"
        THEN Plain(text)
        ELSE TranslationError(ExcMessage(b))

\* The value translate_text returns when it returns (lines 51-64).
translate_text(text, b) ==
    IF b = "ok"
        THEN Plain(Provider(Prompt(text)))
        ELSE TranslationError(ExcMessage(b))

\* Mutant of Escapes: the except clause of line 62 catches the transport's
\* errors only, so a malformed body's KeyError leaves translate_text.
Escapes_TransportOnly(b) ==
    IF b \in {"crash", "malformed"} THEN ExcMessage(b) ELSE NoException

\* The exception that leaves translate_text: the try of lines 51-64 catches
\* every Exception of the remote call and of reading its body.
Escapes(b) == IF b = "crash" THEN ExcMessage(b) ELSE NoException

\* Mutant of CollectedEntry: the future's result is appended whether or not
\* the future holds an exception.
CollectedEntry_NoExcept(fut, original_text) == fut.result

\* The entry the collector appends for a finished future (lines 81-87).
CollectedEntry(fut, original_text) ==
    IF fut.exception = NoException
        THEN fut.result
        ELSE ErrorFor(original_text, fut.exception)

Busy == {f \in DOMAIN futures : futures[f].state = "RUNNING"}
Finished == {f \in DOMAIN futures : futures[f].state = "FINISHED"}

----------------------------------------------------------------------------
Init ==
    /\ pc = "idle"
    /\ texts = <<>>
    /\ max_workers = 1
    /\ behaviour = <<>>
    /\ translated_results = <<>>
    /\ future_to_text = <<>>
    /\ futures = <<>>
    /\ in_call = {}
    /\ work_queue = <<>>
    /\ num_threads = 0
    /\ idle_semaphore = 0
    /\ waiter = FALSE
    /\ waiter_finished = <<>>
    /\ ac_finished = <<>>
    /\ ac_pending = {}
    /\ collected = <<>>
    /\ invocations = 0
    /\ remote_calls = 0
    /\ last_returned = <<>>
    /\ earlier_batch = FALSE

\* The pool a call starts with: ThreadPoolExecutor.__init__ (line 73).
FreshPool ==
    /\ future_to_text' = <<>>
    /\ futures' = <<>>
    /\ in_call' = {}
    /\ work_queue' = <<>>
    /\ num_threads' = 0
    /\ idle_semaphore' = 0
    /\ waiter' = FALSE
    /\ waiter_finished' = <<>>
    /\ ac_finished' = <<>>
    /\ ac_pending' = {}
    /\ collected' = <<>>
    /\ invocations' = 0
    /\ remote_calls' = 0

\* Mutant of AfterExecutorInit: only a negative max_workers is rejected.
AfterExecutorInit_ZeroAccepted(w) == IF w < 0 THEN "raised" ELSE "submit"

\* The pc after ThreadPoolExecutor(max_workers=w): ValueError when w <= 0.
AfterExecutorInit(w) == IF w <= 0 THEN "raised" ELSE "submit"

\* Mutant of NewResults: the results list is shared between calls (a module
\* level list or a mutable default), so it still holds the previous outcomes.
NewResults_Shared == last_returned

\* translated_results = [] (line 70): every call builds a list of its own.
NewResults == <<>>

\* A call of parallel_translate: lines 70 and 73. The callee holds no
\* reference to the list returned before.
parallel_translate ==
    /\ pc = "idle"
    /\ \E t \in SeqsUpTo(Texts, MaxLen), w \in -1..MaxWorkers :
         \E b \in [1..Len(t) -> Behaviours] :
            /\ texts' = t
            /\ max_workers' = w
            /\ behaviour' = b
            /\ translated_results' = NewResults
            /\ FreshPool
            /\ pc' = AfterExecutorInit(w)
            /\ last_returned' = <<>>
            /\ UNCHANGED earlier_batch

\* Mutant of SpawnThread: a thread is started for every submit, without
\* comparing the thread count with max_workers.
SpawnThread_Unbounded == idle_semaphore = 0

\* executor._adjust_thread_count: a submit starts a new thread.
SpawnThread == idle_semaphore = 0 /\ num_threads < max_workers

\* One iteration of the dict comprehension of line 76: executor.submit.
Submit ==
    /\ pc = "submit"
    /\ Len(futures) < Len(texts)
    /\ LET f == Len(futures) + 1 IN
        /\ futures' = Append(futures,
               [state |-> "PENDING", result |-> None, exception |-> NoException])
        /\ future_to_text' = Append(future_to_text, texts[f])
        /\ work_queue' = Append(work_queue, f)
    /\ idle_semaphore' = IF idle_semaphore > 0 THEN idle_semaphore - 1 ELSE 0
    /\ num_threads' = IF SpawnThread THEN num_threads + 1 ELSE num_threads
    /\ UNCHANGED <<last_returned, earlier_batch,
                   pc, texts, max_workers, behaviour, translated_results, in_call,
                   waiter, waiter_finished, ac_finished, ac_pending, collected,
                   invocations, remote_calls>>

\* A worker thread is free to take a work item.
WorkerFree == Cardinality(Busy) < num_threads

\* Mutant of TakeFrom: the work item is read and left in the queue.
TakeFrom_Peek(q) == [item |-> Head(q), rest |-> q]

\* Mutant of TakeFrom: the queue hands out the newest work item first.
TakeFrom_Lifo(q) == [item |-> q[Len(q)], rest |-> SubSeq(q, 1, Len(q) - 1)]

\* work_queue.get(): the oldest work item, and the queue without it.
TakeFrom(q) == [item |-> Head(q), rest |-> Tail(q)]

\* _worker: a free thread takes the head of the queue and starts translate_text.
WorkerTake ==
    /\ work_queue # <<>>
    /\ WorkerFree
    /\ LET f == TakeFrom(work_queue).item IN
        futures' = [futures EXCEPT ![f].state = "RUNNING"]
    /\ work_queue' = TakeFrom(work_queue).rest
    /\ invocations' = invocations + 1
    /\ UNCHANGED <<last_returned, earlier_batch,
                   pc, texts, max_workers, behaviour, translated_results,
                   future_to_text, in_call, num_threads, idle_semaphore, waiter,
                   waiter_finished, ac_finished, ac_pending, collected,
                   remote_calls>>

\* translate_text reaches bedrock_runtime.invoke_model (line 52).
InvokeModel ==
    \E f \in Busy \ in_call :
        /\ behaviour[f] # "crash"
        /\ in_call' = in_call \cup {f}
        /\ remote_calls' = remote_calls + 1
        /\ UNCHANGED <<last_returned, earlier_batch,
                       pc, texts, max_workers, behaviour, translated_results,
                       future_to_text, futures, work_queue, num_threads,
                       idle_semaphore, waiter, waiter_finished, ac_finished,
                       ac_pending, collected, invocations>>

\* The future once its job is over: set_result or set_exception.
FinishedFuture(result, exception) ==
    [state |-> "FINISHED", result |-> result, exception |-> exception]

\* Mutant of Notify: a finishing future is recorded for the waiter even when
\* as_completed has not yet taken its snapshot of the finished futures.
Notify_BeforeInstall(f) == Append(waiter_finished, f)

\* Mutant of Notify: a finishing future never wakes the waiter.
Notify_Never(f) == waiter_finished

\* Mutant of Notify: the waiter records the newest completion first.
Notify_NewestFirst(f) ==
    IF waiter THEN <<f>> \o waiter_finished ELSE waiter_finished

\* What a finishing future tells as_completed's waiter.
Notify(f) == IF waiter THEN Append(waiter_finished, f) ELSE waiter_finished

\* The remote call returns or raises, translate_text returns (lines 58-64) and
\* the worker sets the future's result and releases the idle semaphore.
TranslateReturn ==
    \E f \in in_call :
        /\ futures' = [futures EXCEPT
               ![f] = IF Escapes(behaviour[f]) = NoException
                          THEN FinishedFuture(
                                   translate_text(future_to_text[f], behaviour[f]),
                                   NoException)
                          ELSE FinishedFuture(None, Escapes(behaviour[f]))]
        /\ in_call' = in_call \ {f}
        /\ waiter_finished' = Notify(f)
        /\ idle_semaphore' = idle_semaphore + 1
        /\ UNCHANGED <<last_returned, earlier_batch,
                       pc, texts, max_workers, behaviour, translated_results,
                       future_to_text, work_queue, num_threads, waiter,
                       ac_finished, ac_pending, collected, invocations,
                       remote_calls>>

\* The job raises before it reaches the remote call: the worker sets the
\* future's exception.
JobRaises ==
    \E f \in Busy \ in_call :
        /\ behaviour[f] = "crash"
        /\ futures' = [futures EXCEPT
               ![f] = FinishedFuture(None, ExcMessage(behaviour[f]))]
        /\ waiter_finished' = Notify(f)
        /\ idle_semaphore' = idle_semaphore + 1
        /\ UNCHANGED <<last_returned, earlier_batch,
                       pc, texts, max_workers, behaviour, translated_results,
                       future_to_text, in_call, work_queue, num_threads, waiter,
                       ac_finished, ac_pending, collected, invocations,
                       remote_calls>>

\* Mutant of Keys: the association is keyed by the text, so of the jobs with
\* the same text only the one submitted last is kept.
Keys_ByText ==
    {f \in DOMAIN futures :
        \A g \in DOMAIN futures : future_to_text[g] = future_to_text[f] => g <= f}

\* The keys of future_to_text, which as_completed iterates: one per future.
Keys == DOMAIN futures

\* Mutant of AllSubmitted: the futures are produced lazily, so the collector
\* starts as soon as the first job is submitted.
AllSubmitted_FirstOnly == Len(futures) >= 1 \/ Len(texts) = 0

\* The dict comprehension of line 76 has run over all of texts.
AllSubmitted == Len(futures) = Len(texts)

\* as_completed(future_to_text) is entered (line 80): the futures already
\* finished are listed in some order, the waiter is installed on all.
AsCompleted ==
    /\ pc = "submit"
    /\ AllSubmitted
    /\ \E order \in ListsOf(Finished \cap Keys) : ac_finished' = order
    /\ ac_pending' = Keys \ Finished
    /\ waiter' = TRUE
    /\ pc' = "collect"
    /\ UNCHANGED <<last_returned, earlier_batch,
                   texts, max_workers, behaviour, translated_results,
                   future_to_text, futures, in_call, work_queue, num_threads,
                   idle_semaphore, waiter_finished, collected, invocations,
                   remote_calls>>

\* as_completed wakes up on the waiter's event and takes the futures finished
\* since, in completion order.
AsCompletedWake ==
    /\ pc = "collect"
    /\ ac_finished = <<>>
    /\ ac_pending # {}
    /\ waiter_finished # <<>>
    /\ ac_finished' = waiter_finished
    /\ waiter_finished' = <<>>
    /\ UNCHANGED <<last_returned, earlier_batch,
                   pc, texts, max_workers, behaviour, translated_results,
                   future_to_text, futures, in_call, work_queue, num_threads,
                   idle_semaphore, waiter, ac_pending, collected, invocations,
                   remote_calls>>

\* Mutant of AppendOutcome: the except branch logs the failure and appends
\* nothing.
AppendOutcome_LogOnly(results, f) ==
    IF futures[f].exception = NoException
        THEN Append(results, futures[f].result)
        ELSE results

\* Mutant of AppendOutcome: the original text is looked up by the position of
\* the entry in the results list, not by the future.
AppendOutcome_TextByPosition(results, f) ==
    Append(results, CollectedEntry(futures[f], future_to_text[Len(results) + 1]))

\* The results list after the loop body has handled future f (lines 81-87).
AppendOutcome(results, f) ==
    Append(results, CollectedEntry(futures[f], future_to_text[f]))

\* as_completed yields the next future and the loop body runs (lines 80-87).
Collect ==
    /\ pc = "collect"
    /\ ac_finished # <<>>
    /\ LET f == Head(ac_finished) IN
        /\ translated_results' = AppendOutcome(translated_results, f)
        /\ collected' = Append(collected, f)
        /\ ac_pending' = ac_pending \ {f}
    /\ ac_finished' = Tail(ac_finished)
    /\ UNCHANGED <<last_returned, earlier_batch,
                   pc, texts, max_workers, behaviour, future_to_text, futures,
                   in_call, work_queue, num_threads, idle_semaphore, waiter,
                   waiter_finished, invocations, remote_calls>>

\* Mutant of LoopDone: as_completed stops after the futures it already holds,
\* without waiting for the pending ones.
LoopDone_NoWait == ac_finished = <<>>

\* Mutant of LoopDone: as_completed waits for a completion before it looks
\* whether any future is pending.
LoopDone_WaitFirst == ac_finished = <<>> /\ ac_pending = {} /\ collected # <<>>

\* as_completed is exhausted: nothing left to yield.
LoopDone == ac_finished = <<>> /\ ac_pending = {}

\* The loop ends, the with block shuts the pool down (waiting for its
\* threads) and translated_results is returned (lines 88-89).
Return ==
    /\ pc = "collect"
    /\ LoopDone
    /\ Busy = {}
    /\ pc' = "returned"
    /\ waiter' = FALSE
    /\ UNCHANGED <<last_returned, earlier_batch,
                   texts, max_workers, behaviour, translated_results,
                   future_to_text, futures, in_call, work_queue, num_threads,
                   idle_semaphore, waiter_finished, ac_finished, ac_pending,
                   collected, invocations, remote_calls>>

\* The call is over (returned or raised) and its frame is gone: the caller
\* goes on and may call again (lines 116, 130).
CallerContinues ==
    /\ pc \in {"returned", "raised"}
    /\ pc' = "idle"
    /\ texts' = <<>>
    /\ max_workers' = 1
    /\ behaviour' = <<>>
    /\ translated_results' = <<>>
    /\ FreshPool
    /\ last_returned' = IF pc = "returned" THEN translated_results ELSE <<>>
    /\ earlier_batch' =
           (earlier_batch \/ (pc = "returned" /\ translated_results # <<>>))

Next ==
    \/ parallel_translate
    \/ CallerContinues
    \/ Submit
    \/ WorkerTake
    \/ InvokeModel
    \/ TranslateReturn
    \/ JobRaises
    \/ AsCompleted
    \/ AsCompletedWake
    \/ Collect
    \/ Return

Spec == Init /\ [][Next]_vars

\* Fair scheduling: the caller's thread and the worker threads keep running,
\* and every remote call eventually returns or raises. Nothing obliges the
\* caller to call parallel_translate, or to call it again.
Fairness ==
    /\ WF_vars(Submit)
    /\ WF_vars(WorkerTake)
    /\ WF_vars(InvokeModel)
    /\ WF_vars(TranslateReturn)
    /\ WF_vars(JobRaises)
    /\ WF_vars(AsCompleted)
    /\ WF_vars(AsCompletedWake)
    /\ WF_vars(Collect)
    /\ WF_vars(Return)

FairSpec == Spec /\ Fairness

----------------------------------------------------------------------------
\* The claims.

InBatch == pc \in {"submit", "collect"}
Jobs == 1..Len(texts)
HasFailure == \E i \in Jobs : behaviour[i] # "ok"
HasSuccess == \E i \in Jobs : behaviour[i] = "ok"

\* An outcome that reports a failure.
IsFailure(o) == o.fmt \in {"Translation error: {}", "Error for '{}': {}"}

\* C1: whenever parallel_translate has returned, the returned list has exactly
\* as many outcomes as the input list has texts, whatever max_workers >= 1, the
\* interleaving and the mix of successes and failures were.
C1_ExactlyNOutcomes ==
    pc = "returned" => Len(translated_results) = Len(texts)

\* C1 witness: a batch of at least two texts has returned, with a failed job that
\* raised in the pool and a successful one.
C1_Witness ==
    /\ pc = "returned"
    /\ Len(texts) >= 2
    /\ \E i \in Jobs : behaviour[i] = "crash"
    /\ HasSuccess

\* C2: the translate_text invocations started and not finished never exceed
\* max_workers, and a pending job starts running only from a state in which
\* fewer than max_workers jobs are running.
C2_AtMostMaxWorkersRunning ==
    /\ [](Busy # {} => Cardinality(Busy) <= max_workers)
    /\ [][\A f \in DOMAIN futures \cap DOMAIN futures' :
             (futures[f].state = "PENDING" /\ futures'[f].state = "RUNNING")
                 => Cardinality(Busy) < max_workers]_vars

\* C2 witness: all max_workers slots are busy while a submitted job waits in
\* the queue.
C2_Witness ==
    /\ InBatch
    /\ Cardinality(Busy) = max_workers
    /\ work_queue # <<>>

\* C3: in every state every job has at most one outcome recorded (the futures
\* processed by the collector are pairwise distinct, one list entry each), and
\* at return every job has exactly one.
C3_OneOutcomePerJob ==
    /\ Len(collected) = Len(translated_results)
    /\ \A i, j \in DOMAIN collected : collected[i] = collected[j] => i = j
    /\ Range(collected) \subseteq DOMAIN futures
    /\ pc = "returned" => Range(collected) = Jobs

\* C3 witness: a batch has returned whose first recorded outcome is not the
\* first job's, so the jobs completed out of submission order.
C3_Witness ==
    /\ pc = "returned"
    /\ Len(texts) >= 2
    /\ collected # <<>>
    /\ collected[1] > 1

\* C4: a call with max_workers >= 1 never ends by raising, whatever jobs fail;
\* every failed job's recorded outcome is a failure outcome, and every other
\* job's recorded outcome is the one it has when no job fails.
C4_FailuresDoNotAbort ==
    /\ pc = "raised" => max_workers <= 0
    /\ \A k \in DOMAIN translated_results :
          LET f == collected[k] IN
             IF behaviour[f] = "ok"
                 THEN translated_results[k] = translate_text(texts[f], "ok")
                 ELSE IsFailure(translated_results[k])

\* C4 witness: a batch in which the first job raised in the pool and another
\* job succeeded has returned.
C4_Witness ==
    /\ pc = "returned"
    /\ Len(texts) >= 2
    /\ behaviour[1] = "crash"
    /\ HasSuccess

\* An outcome that is a failure naming the text.
References(o, text) == IsFailure(o) /\ text \in Range(o.args)

\* C5 (as claimed): for every job whose remote call raises or returns a
\* malformed body, the recorded outcome is a failure that references the job's
\* original input text.
C5_RemoteFailureNamesText ==
    \A k \in DOMAIN translated_results :
        LET f == collected[k] IN
           behaviour[f] \in {"transport", "malformed"}
               => References(translated_results[k], texts[f])

\* C6: for every job whose remote call succeeds, the recorded outcome is the
\* text the provider returned for the prompt built from that job's own text.
C6_SuccessIsOwnTranslation ==
    \A k \in DOMAIN translated_results :
        LET f == collected[k] IN
           behaviour[f] = "ok"
               => translated_results[k] = Plain(Provider(Prompt(texts[f])))

\* C6 witness: two jobs with different texts both succeeded, the second was
\* recorded first, and the batch has returned.
C6_Witness ==
    /\ pc = "returned"
    /\ Len(texts) >= 2
    /\ texts[1] # texts[2]
    /\ behaviour[1] = "ok" /\ behaviour[2] = "ok"
    /\ collected[1] = 2

\* How jobs turn out depends only on their text.
TextDetermined ==
    \A i, j \in Jobs : texts[i] = texts[j] => behaviour[i] = behaviour[j]

\* The outcome of job i when it is run on its own.
OutcomeAlone(i) ==
    IF behaviour[i] = "crash"
        THEN ErrorFor(texts[i], ExcMessage(behaviour[i]))
        ELSE translate_text(texts[i], behaviour[i])

\* C7: when how a job turns out depends only on its text, the multiset of
\* outcomes returned is the multiset of the jobs' outcomes run one by one: it
\* is a function of the texts alone, the same for every max_workers >= 1 and
\* every interleaving.
C7_OutcomesIndependentOfWorkers ==
    (pc = "returned" /\ TextDetermined)
        => BagOfSeq(translated_results) = BagOfSeq([i \in Jobs |-> OutcomeAlone(i)])

\* C7 witness: a batch run with more than one worker has returned, its jobs
\* determined by their texts and recorded out of submission order.
C7_Witness ==
    /\ pc = "returned"
    /\ TextDetermined
    /\ max_workers >= 2
    /\ Len(texts) >= 2
    /\ texts[1] # texts[2]
    /\ collected[1] # 1

\* Every future has reached its terminal state and no work is left.
AllTerminal ==
    /\ \A f \in DOMAIN futures : futures[f].state = "FINISHED"
    /\ Len(futures) = Len(texts)
    /\ work_queue = <<>>
    /\ in_call = {}

\* C8: under fair scheduling a batch that has started eventually returns; when
\* it has returned every job is in its terminal state (none pending or
\* running), and no job start and no remote call is possible any more.
C8_BatchTerminates ==
    /\ InBatch ~> pc = "returned"
    /\ [](pc = "returned" =>
            /\ AllTerminal
            /\ ~ENABLED WorkerTake
            /\ ~ENABLED InvokeModel)

\* C8 witness: a batch of at least two jobs with fewer workers than jobs has
\* returned.
C8_Witness ==
    /\ pc = "returned"
    /\ Len(texts) >= 2
    /\ max_workers < Len(texts)
    /\ remote_calls >= 1

\* C9: for an empty input list no job is submitted, no translate_text
\* invocation and no remote call is ever made, the collector has nothing to
\* wait for (the call can return at once), and the list returned is empty.
C9_EmptyInput ==
    (texts = <<>> /\ pc # "idle") =>
        /\ futures = <<>>
        /\ invocations = 0
        /\ remote_calls = 0
        /\ translated_results = <<>>
        /\ pc = "collect" => ENABLED Return

\* C9 witness: a call with an empty input list has returned.
C9_Witness ==
    /\ pc = "returned"
    /\ texts = <<>>
    /\ translated_results = <<>>

\* C10: a call with max_workers <= 0 ends by raising, with no job submitted or
\* run, no thread started, no remote call made and nothing returned.
C10_NonPositiveWorkersRejected ==
    (max_workers <= 0 /\ pc # "idle") =>
        /\ pc = "raised"
        /\ futures = <<>>
        /\ work_queue = <<>>
        /\ num_threads = 0
        /\ invocations = 0
        /\ remote_calls = 0

\* C10 witness: a call with max_workers = 0 and a non-empty input list has
\* raised.
C10_Witness ==
    /\ pc = "raised"
    /\ max_workers = 0
    /\ texts # <<>>

\* C11: translate_text never raises on a remote behaviour: every job that
\* reached the remote call ends with a returned value and no exception, the
\* provider's text on success and otherwise a failure string carrying the
\* error's message.
C11_TranslateTextNeverRaises ==
    \A f \in Finished :
        behaviour[f] # "crash" =>
            /\ futures[f].exception = NoException
            /\ futures[f].result =
                  IF behaviour[f] = "ok"
                      THEN Plain(Provider(Prompt(texts[f])))
                      ELSE [fmt |-> "Translation error: {}",
                            args |-> <<ExcMessage(behaviour[f])>>]

\* C11 witness: one job's remote call raised, another's returned a malformed
\* body, and both jobs are finished.
C11_Witness ==
    /\ Len(futures) >= 2
    /\ Finished = DOMAIN futures
    /\ \E f \in Finished : behaviour[f] = "transport"
    /\ \E f \in Finished : behaviour[f] = "malformed"

\* The steps a job may take: none, Submitted -> Running, Running -> Completed.
JobStep(before, after) ==
    \/ after = before
    \/ before.state = "PENDING" /\ after.state = "RUNNING"
    \/ before.state = "RUNNING" /\ after.state = "FINISHED"

\* C12: a job enters as Submitted, moves only Submitted -> Running ->
\* Completed, keeps its state and outcome once completed, and is executed
\* once: the translate_text invocations made are exactly the jobs that have
\* left Submitted, N of them when a batch of N returns.
C12_JobStateMachine ==
    /\ [][\A f \in DOMAIN futures' :
             IF f \in DOMAIN futures
                 THEN /\ JobStep(futures[f], futures'[f])
                      /\ futures[f].state = "FINISHED" => futures'[f] = futures[f]
                 ELSE futures'[f].state = "PENDING"]_vars
    /\ [](invocations = Cardinality(Busy \cup Finished))
    /\ [](pc = "returned" => invocations = Len(texts))

\* C12 witness: a batch of at least two jobs, one failed and one succeeded,
\* has returned after as many invocations as jobs.
C12_Witness ==
    /\ pc = "returned"
    /\ Len(texts) >= 2
    /\ invocations = Len(texts)
    /\ HasFailure
    /\ HasSuccess

\* C13 (as claimed): the i-th element of the returned list is the outcome of
\* the i-th input text.
C13_PositionalAlignment ==
    pc = "returned" =>
        /\ Len(translated_results) = Len(texts)
        /\ \A i \in Jobs : translated_results[i] = OutcomeAlone(i)

\* The futures the collector has observed as complete, in the order in which
\* it records them: those recorded, those as_completed holds to yield next,
\* and those the waiter has noted since.
Observed == collected \o ac_finished \o waiter_finished

\* C14: an outcome is appended only for a job that has completed; once the
\* collector drains, each completing job joins the end of the order in which
\* outcomes are appended, so outcomes follow completion, not submission; and
\* whenever a completed job's outcome is not yet recorded the collector can
\* proceed, whatever the state of the other jobs.
C14_CompletionOrderDraining ==
    /\ [](Range(collected) \subseteq Finished)
    /\ [][(pc = "collect" /\ pc' = "collect") =>
            \/ Observed' = Observed
            \/ \E f \in DOMAIN futures :
                  /\ futures[f].state # "FINISHED"
                  /\ futures'[f].state = "FINISHED"
                  /\ Observed' = Append(Observed, f)]_vars
    /\ []((pc = "collect" /\ Finished \ Range(collected) # {})
             => (ENABLED Collect \/ ENABLED AsCompletedWake))

\* C14 witness: the collector has recorded the second job's outcome first,
\* while the first job is still pending or running.
C14_Witness ==
    /\ pc = "collect"
    /\ collected # <<>>
    /\ collected[1] = 2
    /\ futures[1].state \in {"PENDING", "RUNNING"}

\* C15: the failure outcome synthesised for a job whose execution raised
\* names that job's original text and the exception, also when jobs complete
\* out of submission order; and the job-to-text association maps every
\* submitted job to its input text from submission on and never changes
\* while the batch runs.
C15_FailureNamesOwnText ==
    /\ [](\A k \in DOMAIN translated_results :
             LET f == collected[k] IN
                behaviour[f] = "crash" =>
                    /\ translated_results[k].fmt = "Error for '{}': {}"
                    /\ translated_results[k].args =
                           <<texts[f], ExcMessage(behaviour[f])>>)
    /\ [](InBatch \/ pc = "returned" =>
             /\ Len(future_to_text) = Len(futures)
             /\ \A f \in DOMAIN future_to_text : future_to_text[f] = texts[f])
    /\ [][\A f \in DOMAIN future_to_text \cap DOMAIN futures' :
             future_to_text'[f] = future_to_text[f]]_vars

\* C15 witness: of two jobs with different texts the second raised and was
\* recorded first, the first job still being pending or running.
C15_Witness ==
    /\ pc = "collect"
    /\ Len(texts) >= 2
    /\ texts[1] # texts[2]
    /\ behaviour[2] = "crash"
    /\ collected = <<2>>
    /\ futures[1].state # "FINISHED"

\* C16: with max_workers = 1 at most one job is running in every state, and a
\* job has started only if every job submitted before it has completed: jobs
\* run one at a time, to completion, in submission order.
C16_SingleWorkerSequential ==
    max_workers = 1 =>
        /\ Cardinality(Busy) <= 1
        /\ \A f, g \in DOMAIN futures :
              (f < g /\ futures[g].state # "PENDING")
                  => futures[f].state = "FINISHED"

\* C16 witness: with one worker the second job is running and the first one
\* has completed.
C16_Witness ==
    /\ max_workers = 1
    /\ Len(futures) >= 2
    /\ futures[1].state = "FINISHED"
    /\ futures[2].state = "RUNNING"

\* C17: the collector starts, and so appends its first outcome, only when all
\* N jobs are submitted; and a job still to be submitted can always be
\* submitted at once, whether or not a worker is free or earlier jobs have
\* completed.
C17_AllSubmittedBeforeCollecting ==
    /\ (pc = "collect" \/ translated_results # <<>>) => Len(futures) = Len(texts)
    /\ (pc = "submit" /\ Len(futures) < Len(texts)) => ENABLED Submit

\* C17 witness: every worker slot is busy with an unfinished job while the
\* caller is about to submit a further job.
C17_Witness ==
    /\ pc = "submit"
    /\ Len(futures) < Len(texts)
    /\ Busy # {}
    /\ Cardinality(Busy) = max_workers

\* C18: every occurrence of a text is a job of its own: the association has
\* one key per submitted job, also for equal texts, and at return every input
\* position has exactly one recorded outcome, which is that job's own outcome.
C18_DuplicateTextsKeptApart ==
    /\ Cardinality(Keys) = Len(futures)
    /\ Len(future_to_text) = Len(futures)
    /\ pc = "returned" =>
          /\ Len(translated_results) = Len(texts)
          /\ \A i \in Jobs :
                /\ Cardinality({k \in DOMAIN collected : collected[k] = i}) = 1
                /\ \A k \in DOMAIN collected :
                      collected[k] = i => translated_results[k] = OutcomeAlone(i)

\* C18 witness: a batch whose first two texts are equal, one job succeeding
\* and the other failing, has returned.
C18_Witness ==
    /\ pc = "returned"
    /\ Len(texts) >= 2
    /\ texts[1] = texts[2]
    /\ behaviour[1] = "ok"
    /\ behaviour[2] # "ok"

\* C19: every call starts with an empty result list, an empty association and
\* a fresh pool, whatever the call before returned; every recorded outcome is
\* the outcome of a job of the current batch, determined by that job's text
\* and execution alone; and a step that changes one job's future leaves every
\* other job's future and the association as they are.
C19_BatchesIndependent ==
    /\ [][(pc = "idle" /\ pc' # "idle") =>
            /\ translated_results' = <<>>
            /\ future_to_text' = <<>>
            /\ futures' = <<>>
            /\ work_queue' = <<>>
            /\ num_threads' = 0
            /\ idle_semaphore' = 0
            /\ waiter_finished' = <<>>]_vars
    /\ [](/\ Len(translated_results) = Len(collected)
          /\ \A k \in DOMAIN translated_results :
                /\ collected[k] \in Jobs
                /\ translated_results[k] = OutcomeAlone(collected[k]))
    /\ [][\A f, g \in DOMAIN futures \cap DOMAIN futures' :
             (f # g /\ futures'[f] # futures[f])
                 => /\ futures'[g] = futures[g]
                    /\ future_to_text' = future_to_text]_vars

\* C19 witness: a call made after an earlier call had returned outcomes has
\* itself returned a batch of at least two outcomes, one of them a failure.
C19_Witness ==
    /\ earlier_batch
    /\ pc = "returned"
    /\ Len(translated_results) >= 2
    /\ HasFailure

====
